---- MODULE Spec2Model ----
(***************************************************************************)
(* gitnab: the streaming tarball extractor (extractTarball), the tarball    *)
(* downloader (downloadTarball) and the URL parser (parseUrl).  Each of     *)
(* the three has its own specification over its own variables; the          *)
(* variables of the other two stay at their idle values.                    *)
(*                                                                         *)
(* A string is a sequence of one-character strings, so that indexOf,       *)
(* slice, split and join are computed character by character as the        *)
(* JavaScript code computes them.                                          *)
(***************************************************************************)
EXTENDS Integers, Sequences, FiniteSets, TLC

VARIABLES
    subpath,          \* options.subpath, the string as given
    keepFolderName,   \* options.keepFolderName
    foundFiles,       \* let foundFiles
    tarballPrefix,    \* let tarballPrefix: string | null
    writePromises,    \* const writePromises: one record per pushed promise
    queue,            \* entries the filter accepted, not yet handed to onReadEntry
    nread,            \* number of entry headers the decoder has read
    stream,           \* "open", "ended" (parser 'end'), "aborted" (parser 'error'), "srcfailed",
                      \* "errored" (parser 'error', 'end' to come), "endedAfterError"
    endHandler,       \* the async 'end' listener: "idle", "awaiting", "returned", "threw"
    outcome,          \* the outer promise: "pending", "resolved", "rejected"
    reason,           \* what the outer promise was rejected with
    dirs,             \* directories created under the destination (segment lists)
    dispatched,       \* what onReadEntry did with each entry it was given, in order
    lastFilter,       \* the last call of the filter: its path and its result
    firstPath,        \* the path of the first entry the filter was called with
    fatalAt,          \* headers read when the first fatal error happened, -1 before it
    \* downloadTarball
    dlProvider,       \* the provider whose formatError is used
    dlHop,            \* requests issued so far minus one: 0 is downloadTarball's own
    dlPhase,          \* "idle", "requesting", "settled", "threw" (a callback threw)
    dlOutcome,        \* the promise downloadTarball returns
    dlReason,         \* the message it was rejected with
    dlResponses,      \* the responses and request errors received so far, one per hop
    dlRequest,        \* the request in flight: its URL and its headers
    \* parseUrl
    urlInput,         \* the URL given, as its parts
    urlResult,        \* what parseUrl returned or threw
    urlTarball,       \* what provider.getTarballUrl(info) returned, empty before
    \* two extractTarball calls whose events interleave
    runs              \* the state of each call, one record per call

exVars == <<subpath, keepFolderName, foundFiles, tarballPrefix, writePromises, queue,
            nread, stream, endHandler, outcome, reason, dirs, dispatched, lastFilter,
            firstPath, fatalAt>>

dlVars == <<dlProvider, dlHop, dlPhase, dlOutcome, dlReason, dlResponses, dlRequest>>

urlVars == <<urlInput, urlResult, urlTarball>>

pairVars == <<runs>>

vars == <<exVars, dlVars, urlVars, pairVars>>

(* Bound: how many entries the decoder yields in one run. *)
MaxEntries == 2

\* null and undefined are values that no string equals; strings being sequences
\* of characters, they are one-element sequences that hold no character.
Null == <<"null">>
Undefined == <<"undefined">>
SLASH == "/"

-----------------------------------------------------------------------------
(* JavaScript string and array primitives used by the extractor. *)

\* String.prototype.indexOf('/'): 0-based index of the first separator, or -1.
RECURSIVE IndexFrom(_, _)
IndexFrom(s, i) ==
    IF i > Len(s) THEN -1
    ELSE IF s[i] = SLASH THEN i - 1
    ELSE IndexFrom(s, i + 1)

IndexOfSlash(s) == IndexFrom(s, 1)

\* s.slice(from) and s.slice(from, to) with 0-based, non-negative arguments.
Slice(s, from) == SubSeq(s, from + 1, Len(s))

Slice2(s, from, to) == SubSeq(s, from + 1, IF to > Len(s) THEN Len(s) ELSE to)

\* s.split('/'): the pieces between separators, empty pieces included.
RECURSIVE SplitFrom(_, _, _)
SplitFrom(s, i, cur) ==
    IF i > Len(s) THEN <<cur>>
    ELSE IF s[i] = SLASH THEN <<cur>> \o SplitFrom(s, i + 1, <<>>)
    ELSE SplitFrom(s, i + 1, Append(cur, s[i]))

Split(s) == SplitFrom(s, 1, <<>>)

\* parts.filter(Boolean): the empty string is falsy.
FilterBoolean(parts) == SelectSeq(parts, LAMBDA p : p # <<>>)

\* parts.join('/')
RECURSIVE Join(_)
Join(parts) ==
    IF Len(parts) = 0 THEN <<>>
    ELSE IF Len(parts) = 1 THEN parts[1]
    ELSE parts[1] \o <<SLASH>> \o Join(Tail(parts))

\* parts[i] with a 0-based index: undefined past the end.
At(parts, i) == IF i + 1 <= Len(parts) THEN parts[i + 1] ELSE Undefined

\* parts.slice(n) on an array, n >= 0.
ArraySlice(parts, n) == SubSeq(parts, n + 1, Len(parts))

-----------------------------------------------------------------------------
(* The inputs: option values and archive entries. *)

Subpaths ==
    { <<>>,                              \* ""
      <<"a">>,                           \* "a"
      <<"/", "a", "/">>,                 \* "/a/"
      <<"a", "/", "b">> }                \* "a/b"

File == "File"
Directory == "Directory"
SymbolicLink == "SymbolicLink"

Entry(p, t) == [path |-> p, type |-> t]

Entries ==
    { Entry(<<"r", "/">>, Directory),                          \* r/
      Entry(<<"r", "/", "a", "/">>, Directory),                \* r/a/
      Entry(<<"r", "/", "a">>, File),                          \* r/a
      Entry(<<"r", "/", "a", "/", "x">>, File),                \* r/a/x
      Entry(<<"r", "/", "a", "/", "x">>, SymbolicLink),        \* r/a/x -> ...
      Entry(<<"r", "/", "a", "/", "b", "/">>, Directory),      \* r/a/b/
      Entry(<<"r", "/", "a", "/", "b", "/", "x">>, File),      \* r/a/b/x
      Entry(<<"r", "/", "a", "b", "/", "x">>, File),           \* r/ab/x
      Entry(<<"r", "/", "b", "/", "x">>, File),                \* r/b/x
      Entry(<<"x">>, File),                                    \* x
      Entry(<<"/", "a", "/", "x">>, File),                     \* /a/x
      Entry(<<"q", "/", "a", "/", "x">>, File),                \* q/a/x
      Entry(<<"q", "q", "a", "/", "x", "/", "y">>, File),      \* qqa/x/y
      Entry(<<"r", "/", "/", "a", "/", "b", "/", "x">>, File), \* r//a/b/x
      Entry(<<"r", "/", "a", "/", ".", ".", "/", ".", ".", "/", "x">>, File) }
                                                               \* r/a/../../x

-----------------------------------------------------------------------------
(* extractTarball: the values computed once per call. *)

subpathParts == FilterBoolean(Split(subpath))

subpathDepth == Len(subpathParts)

stripCount == 1 + (IF keepFolderName THEN subpathDepth - 1 ELSE subpathDepth)

-----------------------------------------------------------------------------
(* The filter callback of tar.Parser. *)

\* Detection that runs on every entry, not only while the prefix is null.
DetectPrefixAlways(prefix, path) ==
    LET firstSlash == IndexOfSlash(path)
    IN  IF firstSlash > 0 THEN Slice2(path, 0, firstSlash + 1) ELSE prefix

\* The prefix after the detection step at the top of the filter.
DetectPrefix(prefix, path) ==
    IF prefix = Null
    THEN LET firstSlash == IndexOfSlash(path)
         IN  IF firstSlash > 0 THEN Slice2(path, 0, firstSlash + 1) ELSE Null
    ELSE prefix

\* The loop "for (i = 0; i < subpathParts.length; i++)": TRUE when it runs to
\* the end without returning false.
RECURSIVE StartsWithSubpath(_, _, _)
StartsWithSubpath(pathParts, parts, i) ==
    IF i >= Len(parts) THEN TRUE
    ELSE IF At(pathParts, i) # At(parts, i) THEN FALSE
    ELSE StartsWithSubpath(pathParts, parts, i + 1)

\* The filter with "<" for "<=" in its length check: the requested directory's
\* own entry passes.
FilterAcceptsOffByOne(prefix, path) ==
    IF prefix = Null THEN FALSE
    ELSE LET relativePath == Slice(path, Len(prefix))
             pathParts == FilterBoolean(Split(relativePath))
         IN  IF ~StartsWithSubpath(pathParts, subpathParts, 0) THEN FALSE
             ELSE IF Len(pathParts) < Len(subpathParts) THEN FALSE
             ELSE TRUE

\* The result of the filter for a path, once the prefix is known.
FilterAccepts(prefix, path) ==
    IF prefix = Null THEN FALSE
    ELSE LET relativePath == Slice(path, Len(prefix))
             pathParts == FilterBoolean(Split(relativePath))
         IN  IF ~StartsWithSubpath(pathParts, subpathParts, 0) THEN FALSE
             ELSE IF Len(pathParts) <= Len(subpathParts) THEN FALSE
             ELSE TRUE

-----------------------------------------------------------------------------
(* The onReadEntry callback of tar.Parser. *)

\* newPath = entry.path.split('/').slice(stripCount).join('/')
NewPath(path) == Join(ArraySlice(Split(path), stripCount))

\* The file system resolves `${destination}/${newPath}`: the non-empty segments
\* of newPath name the location under the destination.
ExtractSegs(newPath) == FilterBoolean(Split(newPath))

\* Where `${destination}/${newPath}` resolves to: ".." steps to the parent
\* directory, "." stays.  TRUE when a step leaves the destination directory.
RECURSIVE EscapesFrom(_, _, _)
EscapesFrom(segs, i, depth) ==
    IF i > Len(segs) THEN FALSE
    ELSE IF segs[i] = <<".", ".">>
         THEN IF depth = 0 THEN TRUE ELSE EscapesFrom(segs, i + 1, depth - 1)
    ELSE IF segs[i] = <<".">> THEN EscapesFrom(segs, i + 1, depth)
    ELSE EscapesFrom(segs, i + 1, depth + 1)

EscapesDestination(newPath) == EscapesFrom(ExtractSegs(newPath), 1, 0)

\* dirname() of a location under the destination.
Dirname(segs) == IF Len(segs) = 0 THEN <<>> ELSE SubSeq(segs, 1, Len(segs) - 1)

\* mkdirSync(p) without the recursive option: p alone.
MkdirLeafOnly(segs) == IF Len(segs) = 0 THEN {} ELSE {segs}

\* mkdirSync(p, {recursive: true}): p and every ancestor of it under the destination.
MkdirRecursive(segs) == { SubSeq(segs, 1, k) : k \in 1..Len(segs) }

-----------------------------------------------------------------------------
(* Promises. *)

\* A join that does not wait: promises still pending count as done.
PromiseAllSkipsPending(wp) ==
    IF \E i \in 1..Len(wp) : wp[i].state = "rejected" THEN "rejected"
    ELSE "fulfilled"

\* Promise.all over the promises collected so far: rejected as soon as one is
\* rejected, fulfilled when all are fulfilled (also when there are none).
PromiseAll(wp) ==
    IF \E i \in 1..Len(wp) : wp[i].state = "rejected" THEN "rejected"
    ELSE IF \A i \in 1..Len(wp) : wp[i].state = "fulfilled" THEN "fulfilled"
    ELSE "pending"

\* The message built from the normalised subpath instead of the given string.
NoFilesErrorNormalized(sp) ==
    [kind |-> "NoFilesFound", path |-> Join(FilterBoolean(Split(sp)))]

\* The error the run is rejected with when nothing matched: its message quotes
\* the subpath option.
NoFilesError(sp) == [kind |-> "NoFilesFound", path |-> sp]

ParserFailure == [kind |-> "ParserError", path |-> <<>>]

NoReason == [kind |-> "none", path |-> <<>>]

\* A resolve() that also settles a promise that is settled already.
ResolveSettled ==
    /\ outcome' = "resolved"
    /\ UNCHANGED reason

\* resolve() and reject(err) of the outer promise: a settled promise stays as it is.
Resolve ==
    /\ outcome' = IF outcome = "pending" THEN "resolved" ELSE outcome
    /\ UNCHANGED reason

Reject(err) ==
    /\ outcome' = IF outcome = "pending" THEN "rejected" ELSE outcome
    /\ reason' = IF outcome = "pending" THEN err ELSE reason

\* The body of the 'end' listener from "await Promise.all(writePromises)" on:
\* it resumes when the promises have settled; a rejection makes the listener
\* throw, and nothing settles the outer promise.
AfterAwait(wp) ==
    CASE PromiseAll(wp) = "fulfilled" -> endHandler' = "returned" /\ Resolve
      [] PromiseAll(wp) = "rejected"  -> endHandler' = "threw" /\ UNCHANGED <<outcome, reason>>
      [] OTHER                         -> endHandler' = "awaiting" /\ UNCHANGED <<outcome, reason>>

-----------------------------------------------------------------------------
(* The idle values of the variables of a component that is not running. *)

ExIdle ==
    /\ subpath = <<>>
    /\ keepFolderName = FALSE
    /\ foundFiles = FALSE
    /\ tarballPrefix = Null
    /\ writePromises = <<>>
    /\ queue = <<>>
    /\ nread = 0
    /\ stream = "idle"
    /\ endHandler = "idle"
    /\ outcome = "pending"
    /\ reason = NoReason
    /\ dirs = {}
    /\ dispatched = <<>>
    /\ lastFilter = [path |-> Null, accepted |-> FALSE]
    /\ firstPath = Null
    /\ fatalAt = -1

DlIdle ==
    /\ dlProvider = "none"
    /\ dlHop = 0
    /\ dlPhase = "idle"
    /\ dlOutcome = "pending"
    /\ dlReason = [kind |-> "none", status |-> 0]
    /\ dlResponses = <<>>
    /\ dlRequest = [url |-> <<>>, headers |-> {}]

\* No URL given yet, and what parseUrl has produced before it is called.
NoUrl ==
    [scheme |-> <<>>, host |-> <<>>, project |-> <<>>, marker |-> <<>>,
     ref |-> <<>>, path |-> <<>>, trailing |-> 0, query |-> <<>>]

NoResult ==
    [state |-> "idle", provider |-> "none", error |-> "none",
     owner |-> <<>>, repo |-> <<>>, ref |-> <<>>, subpath |-> <<>>]

UrlIdle ==
    /\ urlInput = NoUrl
    /\ urlResult = NoResult
    /\ urlTarball = <<>>

\* No extractTarball call of the two-run scenario has started.
PairIdle == runs = <<>>

-----------------------------------------------------------------------------
(* The state after extractTarball has built the parser and piped the stream. *)

Init ==
    /\ subpath \in Subpaths
    /\ keepFolderName \in BOOLEAN
    /\ foundFiles = FALSE
    /\ tarballPrefix = Null
    /\ writePromises = <<>>
    /\ queue = <<>>
    /\ nread = 0
    /\ stream = "open"
    /\ endHandler = "idle"
    /\ outcome = "pending"
    /\ reason = NoReason
    /\ dirs = {}
    /\ dispatched = <<>>
    /\ lastFilter = [path |-> Null, accepted |-> FALSE]
    /\ firstPath = Null
    /\ fatalAt = -1
    /\ DlIdle
    /\ UrlIdle
    /\ PairIdle

\* A match flag that no entry sets.
FoundAfterNever(found, accepted) == found

\* A match flag that every entry sets, accepted or not.
FoundAfterAnyEntry(found, accepted) == TRUE

\* A match flag that holds the result of the last filter call only.
FoundAfterLastOnly(found, accepted) == accepted

\* foundFiles after a filter call: set to true when the entry is accepted,
\* left as it is otherwise.
FoundAfter(found, accepted) == found \/ accepted

\* The decoder reads the header of the next entry and calls the filter with its
\* path; an accepted entry is queued for onReadEntry with its position in the
\* stream.
Filter(e) ==
    /\ stream = "open"
    /\ nread < MaxEntries
    /\ LET prefix == DetectPrefix(tarballPrefix, e.path)
           accepted == FilterAccepts(prefix, e.path)
       IN  /\ tarballPrefix' = prefix
           /\ foundFiles' = FoundAfter(foundFiles, accepted)
           /\ queue' = IF accepted
                       THEN Append(queue, [path |-> e.path, type |-> e.type,
                                           index |-> nread + 1])
                       ELSE queue
           /\ lastFilter' = [path |-> e.path, accepted |-> accepted]
    /\ firstPath' = IF nread = 0 THEN e.path ELSE firstPath
    /\ nread' = nread + 1
    /\ UNCHANGED <<subpath, keepFolderName, writePromises, stream, endHandler,
                   outcome, reason, dirs, dispatched, fatalAt, dlVars, urlVars,
                   pairVars>>

\* A dispatch that writes every entry that is not a directory.
DispatchWritesOtherKinds(e) ==
    IF tarballPrefix = Null THEN "skip"
    ELSE IF NewPath(e.path) = <<>> THEN "skip"
    ELSE IF e.type = Directory THEN "mkdir"
    ELSE "write"

\* What onReadEntry does with an entry: "skip" (entry.resume() only), "mkdir" or
\* "write".
Dispatch(e) ==
    IF tarballPrefix = Null THEN "skip"
    ELSE IF NewPath(e.path) = <<>> THEN "skip"
    ELSE IF e.type = Directory THEN "mkdir"
    ELSE IF e.type = File THEN "write"
    ELSE "skip"

\* A decoder that hands over the entry it accepted last.
NextEntryNewest(q) == q[Len(q)]

\* The entry the decoder hands to onReadEntry: the oldest one it accepted and
\* has not handed over yet.
NextEntry(q) == Head(q)

\* The decoder hands the next accepted entry to onReadEntry.
OnReadEntry ==
    /\ queue # <<>>
    /\ LET e == NextEntry(queue)
           did == Dispatch(e)
           newPath == NewPath(e.path)
           extractPath == ExtractSegs(newPath)
       IN  /\ dirs' = CASE did = "mkdir" -> dirs \cup MkdirRecursive(extractPath)
                        [] did = "write" -> dirs \cup MkdirRecursive(Dirname(extractPath))
                        [] OTHER -> dirs
           /\ writePromises' =
                 IF did = "write"
                 THEN Append(writePromises, [path |-> extractPath, state |-> "pending"])
                 ELSE writePromises
           /\ dispatched' = Append(dispatched,
                 [path |-> e.path, type |-> e.type, did |-> did,
                  newPath |-> IF did = "skip" THEN <<>> ELSE newPath,
                  index |-> e.index])
    /\ queue' = Tail(queue)
    /\ UNCHANGED <<subpath, keepFolderName, foundFiles, tarballPrefix, nread, stream,
                   endHandler, outcome, reason, lastFilter,
                   firstPath, fatalAt, dlVars, urlVars, pairVars>>

\* A write stream emits 'finish' (ok) or 'error': its promise settles, and an
\* 'end' listener waiting on Promise.all resumes.
WriteSettles(i, ok) ==
    /\ i \in 1..Len(writePromises)
    /\ writePromises[i].state = "pending"
    /\ LET wp == [writePromises EXCEPT ![i].state = IF ok THEN "fulfilled" ELSE "rejected"]
       IN  /\ writePromises' = wp
           /\ IF endHandler = "awaiting"
              THEN AfterAwait(wp)
              ELSE UNCHANGED <<endHandler, outcome, reason>>
    /\ fatalAt' = IF ~ok /\ fatalAt = -1 THEN nread ELSE fatalAt
    /\ UNCHANGED <<subpath, keepFolderName, foundFiles, tarballPrefix, queue, nread,
                   stream, dirs, dispatched, lastFilter,
                   firstPath, dlVars, urlVars, pairVars>>

\* The parser emits 'end': every entry has been handed over.
ParserEnd ==
    /\ stream = "open"
    /\ queue = <<>>
    /\ stream' = "ended"
    /\ IF ~foundFiles
       THEN endHandler' = "returned" /\ Reject(NoFilesError(subpath))
       ELSE AfterAwait(writePromises)
    /\ UNCHANGED <<subpath, keepFolderName, foundFiles, tarballPrefix, writePromises,
                   queue, nread, dirs, dispatched, lastFilter,
                   firstPath, fatalAt, dlVars, urlVars, pairVars>>

\* The parser emits 'error' and stops decoding.
ParserError ==
    /\ stream = "open"
    /\ stream' = "aborted"
    /\ Reject(ParserFailure)
    /\ fatalAt' = IF fatalAt = -1 THEN nread ELSE fatalAt
    /\ UNCHANGED <<subpath, keepFolderName, foundFiles, tarballPrefix, writePromises,
                   queue, nread, endHandler, dirs, dispatched, lastFilter,
                   firstPath, dlVars, urlVars, pairVars>>

\* The parser finds the input truncated or not an archive when the input is
\* finished: it emits 'error' for it, and 'end' is still to come.
ParserBadArchive ==
    /\ stream = "open"
    /\ queue = <<>>
    /\ stream' = "errored"
    /\ Reject(ParserFailure)
    /\ fatalAt' = IF fatalAt = -1 THEN nread ELSE fatalAt
    /\ UNCHANGED <<subpath, keepFolderName, foundFiles, tarballPrefix, writePromises,
                   queue, nread, endHandler, dirs, dispatched, lastFilter,
                   firstPath, dlVars, urlVars, pairVars>>

\* The parser emits 'end' after that 'error': the 'end' listener runs as it
\* does after any end of the stream.
ParserEndAfterError ==
    /\ stream = "errored"
    /\ stream' = "endedAfterError"
    /\ IF ~foundFiles
       THEN endHandler' = "returned" /\ Reject(NoFilesError(subpath))
       ELSE AfterAwait(writePromises)
    /\ UNCHANGED <<subpath, keepFolderName, foundFiles, tarballPrefix, writePromises,
                   queue, nread, dirs, dispatched, lastFilter,
                   firstPath, fatalAt, dlVars, urlVars, pairVars>>

\* The source stream emits 'error': pipe() forwards no error to the parser and
\* the source has no 'error' listener, so no handler of extractTarball runs
\* and the parser receives neither data nor end any more.
SourceError ==
    /\ stream = "open"
    /\ stream' = "srcfailed"
    /\ fatalAt' = IF fatalAt = -1 THEN nread ELSE fatalAt
    /\ UNCHANGED <<subpath, keepFolderName, foundFiles, tarballPrefix, writePromises,
                   queue, nread, endHandler, outcome, reason, dirs, dispatched,
                   lastFilter,
                   firstPath, dlVars, urlVars, pairVars>>

Next ==
    \/ \E e \in Entries : Filter(e)
    \/ OnReadEntry
    \/ \E i \in 1..MaxEntries, ok \in BOOLEAN : WriteSettles(i, ok)
    \/ ParserEnd
    \/ ParserError
    \/ ParserBadArchive
    \/ ParserEndAfterError
    \/ SourceError

Spec == Init /\ [][Next]_vars

-----------------------------------------------------------------------------
(* Vocabulary of the properties. *)

\* p starts with the string q.
IsUnder(q, p) == Len(p) >= Len(q) /\ SubSeq(p, 1, Len(q)) = q

\* The non-empty segments of a path.
Segments(p) == FilterBoolean(Split(p))

\* The requested subpath as a list of segments.
S == Segments(subpath)

\* The sequence t starts with the sequence s.
StartsWith(t, s) == Len(t) >= Len(s) /\ SubSeq(t, 1, Len(s)) = s

\* The entries onReadEntry created a directory or started a write for.
Written == { k \in 1..Len(dispatched) : dispatched[k].did \in {"mkdir", "write"} }

\* The run created no file and no directory under the destination.
NothingCreated == dirs = {} /\ writePromises = <<>>

-----------------------------------------------------------------------------
(* C1: for a path under the discovered root prefix, the filter accepts it   *)
(* exactly when its non-empty segments after the root start with the        *)
(* subpath segments, segment by segment, and have at least one more.        *)
C1_FilterIffUnderSubpath ==
    (lastFilter.path # Null /\ tarballPrefix # Null /\ IsUnder(tarballPrefix, lastFilter.path))
    => LET rest == Segments(SubSeq(lastFilter.path, Len(tarballPrefix) + 1,
                                   Len(lastFilter.path)))
       IN  lastFilter.accepted <=> (StartsWith(rest, S) /\ Len(rest) >= Len(S) + 1)

\* An entry below a two-segment subpath was accepted.
C1_Witness ==
    /\ lastFilter.accepted
    /\ IsUnder(tarballPrefix, lastFilter.path)
    /\ Len(S) = 2

\* A sibling whose name extends the subpath segment was rejected.
C1_WitnessRejected ==
    /\ lastFilter.path = <<"r", "/", "a", "b", "/", "x">>
    /\ tarballPrefix = <<"r", "/">>
    /\ S = <<<<"a">>>>
    /\ ~lastFilter.accepted

-----------------------------------------------------------------------------
(* C2: when the parser ends and no entry was accepted, the outer promise is *)
(* rejected with the no-files-found error, which carries the subpath        *)
(* string exactly as it was given; it is not resolved.                      *)
C2_NoMatchRejects ==
    (stream = "ended" /\ dispatched = <<>>)
    => /\ outcome = "rejected"
       /\ reason.kind = "NoFilesFound"
       /\ reason.path = subpath

\* The archive had entries, none was accepted, the subpath was given with
\* separators around it, and the run failed.
C2_Witness ==
    /\ stream = "ended"
    /\ dispatched = <<>>
    /\ nread = MaxEntries
    /\ subpath = <<"/", "a", "/">>
    /\ outcome = "rejected"

(* C3: a run that created no file and no directory never succeeds: at the   *)
(* end of the stream it is rejected with the no-files-found error.          *)
C3_NoSuccessWithEmptyOutput ==
    /\ outcome = "resolved" => ~NothingCreated
    /\ (stream = "ended" /\ NothingCreated)
          => (outcome = "rejected" /\ reason.kind = "NoFilesFound")

(* C4: the outer promise is resolved only when every write the run issued   *)
(* has finished successfully.                                               *)
C4_ResolvedOnlyAfterWrites ==
    outcome = "resolved"
    => \A i \in 1..Len(writePromises) : writePromises[i].state = "fulfilled"

\* A run with two file writes succeeded.
C4_Witness ==
    /\ outcome = "resolved"
    /\ Len(writePromises) = 2

\* The 'end' listener is waiting for an outstanding write.
C4_WitnessAwaiting ==
    /\ stream = "ended"
    /\ endHandler = "awaiting"
    /\ outcome = "pending"

(* C5: when a write of the run has failed and the stream has ended, the     *)
(* outer promise is rejected (and never resolved).                          *)
C5_WriteFailureRejects ==
    (stream = "ended" /\ \E i \in 1..Len(writePromises) : writePromises[i].state = "rejected")
    => outcome = "rejected"

\* The part of C5 that the code keeps: a failed write never ends in success.
C5_WriteFailureNeverResolves ==
    (\E i \in 1..Len(writePromises) : writePromises[i].state = "rejected")
    => outcome # "resolved"

\* Nothing is left to happen: the stream has ended or failed, every accepted
\* entry was handed over and every write has settled.
Quiescent ==
    /\ stream # "open"
    /\ queue = <<>>
    /\ \A i \in 1..Len(writePromises) : writePromises[i].state # "pending"

(* C6: once the stream has ended or failed and every issued write has       *)
(* settled, the outer promise is resolved or rejected.                      *)
C6_SettlesWhenQuiescent == Quiescent => outcome # "pending"

(* C7: after a decoder error or a failure of the source stream the outer    *)
(* promise is rejected with that error, and it is not resolved.             *)
C7_StreamErrorRejects ==
    stream \in {"aborted", "srcfailed"}
    => (outcome = "rejected" /\ reason.kind \in {"ParserError", "SourceError"})

\* The part of C7 that the code keeps: a decoder error rejects at once.
C7_ParserErrorRejects ==
    stream = "aborted" => (outcome = "rejected" /\ reason.kind = "ParserError")

-----------------------------------------------------------------------------
\* The segments of an entry path below the requested subdirectory: the root
\* segment and the subpath segments removed.
RelativeToSubdir(p) == ArraySlice(Segments(p), 1 + Len(S))

\* The last segment of the subpath, as a list (empty when there is none).
LastSubpathSegment == IF Len(S) = 0 THEN <<>> ELSE <<S[Len(S)]>>

\* The location under the destination that the k-th dispatched entry went to.
OutputOf(k) == Segments(dispatched[k].newPath)

(* C8: with keepFolderName=false every written entry goes to its path       *)
(* relative to the requested subdirectory.                                  *)
C8_FlatOutputPath ==
    ~keepFolderName
    => \A k \in Written : OutputOf(k) = RelativeToSubdir(dispatched[k].path)

(* C9: with keepFolderName=true (and a subpath that has a last segment)     *)
(* every written entry goes to the last subpath segment followed by its     *)
(* path relative to the requested subdirectory.                             *)
C9_KeptFolderOutputPath ==
    (keepFolderName /\ Len(S) >= 1)
    => \A k \in Written :
          OutputOf(k) = LastSubpathSegment \o RelativeToSubdir(dispatched[k].path)

\* The path lies in the requested subdirectory of the archive root.
InRequestedSubdir(p) ==
    /\ tarballPrefix # Null
    /\ IsUnder(tarballPrefix, p)
    /\ LET rest == Segments(SubSeq(p, Len(tarballPrefix) + 1, Len(p)))
       IN  StartsWith(rest, S) /\ Len(rest) > Len(S)

(* C10: no entry outside the requested subdirectory is written.             *)
C10_NothingOutsideSubdir ==
    \A k \in Written : InRequestedSubdir(dispatched[k].path)

\* The part of C10 that the code keeps: under the discovered root, a sibling
\* directory is never written, whatever its name.
C10_NoSiblingUnderRoot ==
    \A k \in Written :
        IsUnder(tarballPrefix, dispatched[k].path) => InRequestedSubdir(dispatched[k].path)

-----------------------------------------------------------------------------
(* C11: every file and directory the run creates lies under the             *)
(* destination: no extraction path resolves to a location outside it.       *)
C11_OutputUnderDestination ==
    \A k \in Written : ~EscapesDestination(dispatched[k].newPath)

\* The part of C11 that the code keeps: an entry path without ".." segments
\* never leaves the destination.
C11_NoDotDotStaysInside ==
    \A k \in Written :
        (\A j \in 1..Len(Split(dispatched[k].path)) :
              Split(dispatched[k].path)[j] # <<".", ".">>)
        => ~EscapesDestination(dispatched[k].newPath)

(* C12: when the first entry's path has no separator, no later entry is     *)
(* extracted and the run ends with the no-files-found error.                *)
C12_PrefixOnlyFromFirstEntry ==
    (firstPath # Null /\ IndexOfSlash(firstPath) = -1)
    => /\ Written = {}
       /\ stream = "ended" => (outcome = "rejected" /\ reason.kind = "NoFilesFound")

(* C13: once the root prefix is set, no later step changes it.              *)
C13_PrefixNeverChanges ==
    [][tarballPrefix # Null => tarballPrefix' = tarballPrefix]_vars

\* The prefix was taken from r/... and the filter was then called with an
\* entry of another top-level directory.
C13_Witness ==
    /\ tarballPrefix = <<"r", "/">>
    /\ nread = 2
    /\ lastFilter.path = <<"q", "/", "a", "/", "x">>

(* C14: the strip count used for the entries of a run is at least 1 and at  *)
(* most 1 + the number of subpath segments.                                 *)
C14_StripCountBounds ==
    dispatched # <<>> => (1 <= stripCount /\ stripCount <= 1 + Len(S))

\* The part of C14 that the code keeps: the bounds hold when the subpath has
\* at least one segment.
C14_StripCountBoundsNonEmpty ==
    Len(S) >= 1 => (1 <= stripCount /\ stripCount <= 1 + Len(S))

\* The path, relative to the root prefix, is exactly the requested subpath.
IsRequestedDirItself(prefix, p) ==
    /\ prefix # Null
    /\ IsUnder(prefix, p)
    /\ Segments(SubSeq(p, Len(prefix) + 1, Len(p))) = S

(* C15: a filter call on the entry of the requested directory itself        *)
(* rejects it, leaves the match flag, the queue, the directories and the    *)
(* writes as they were, and such an entry is never dispatched.              *)
C15_DirectoryMarkerNeverAccepted ==
    [][ /\ (nread' = nread + 1 /\ IsRequestedDirItself(tarballPrefix', lastFilter'.path))
           => /\ ~lastFilter'.accepted
              /\ foundFiles' = foundFiles
              /\ queue' = queue
              /\ dirs' = dirs
              /\ writePromises' = writePromises
        /\ \A k \in 1..Len(dispatched') :
              ~IsRequestedDirItself(tarballPrefix', dispatched'[k].path)
      ]_vars

\* The filter was called with r/a (no trailing separator) for the subpath a,
\* after another entry, and nothing has matched.
C15_Witness ==
    /\ lastFilter.path = <<"r", "/", "a">>
    /\ S = << <<"a">> >>
    /\ nread = 2
    /\ ~lastFilter.accepted
    /\ ~foundFiles

-----------------------------------------------------------------------------
\* A fatal error has happened: a write failed, or the decoder or the source
\* stream failed.
FatalErrorSeen == fatalAt # -1

(* C21: no directory is created and no write is started for an entry that   *)
(* the decoder yields after a fatal error.                                  *)
C21_NothingAfterFatalError ==
    \A k \in Written : FatalErrorSeen => dispatched[k].index <= fatalAt

\* The part of C21 that the code keeps: after a decoder error or a failure of
\* the source stream no further entry is read.
C21_NoEntryAfterStreamError ==
    [][stream # "open" => nread' = nread]_vars

\* The ancestors of a location under the destination.
Ancestors(segs) == { SubSeq(segs, 1, k) : k \in 1..(Len(segs) - 1) }

(* C22: whenever a write has been started, every ancestor directory of its  *)
(* output path has been created, in the step that starts the write at the   *)
(* latest.                                                                  *)
C22_AncestorsBeforeWrite ==
    \A i \in 1..Len(writePromises) : Ancestors(writePromises[i].path) \subseteq dirs

\* A write to a location two directories deep was started.
C22_Witness ==
    \E i \in 1..Len(writePromises) :
        /\ Len(writePromises[i].path) = 3
        /\ writePromises[i].path[1] # <<".", ".">>

(* C23: entries are handed to onReadEntry one per step and in the order the *)
(* decoder read them: the positions of the dispatched entries increase.     *)
C23_DispatchInStreamOrder ==
    /\ [](\A j, k \in 1..Len(dispatched) :
              j < k => dispatched[j].index < dispatched[k].index)
    /\ [][Len(dispatched') <= Len(dispatched) + 1]_vars

\* Two entries were dispatched while the write of the first is still pending.
C23_Witness ==
    /\ Len(dispatched) = 2
    /\ dispatched[1].did = "write"
    /\ dispatched[2].did \in {"mkdir", "write"}
    /\ writePromises[1].state = "pending"

(* C24: a filter call that rejects its entry creates no file and no         *)
(* directory, leaves the match flag, the pending writes and the queue as    *)
(* they were and raises no error.                                           *)
C24_RejectedEntryChangesNothing ==
    [][ (nread' = nread + 1 /\ ~lastFilter'.accepted)
        => /\ dirs' = dirs
           /\ writePromises' = writePromises
           /\ foundFiles' = foundFiles
           /\ queue' = queue
           /\ dispatched' = dispatched
           /\ outcome' = outcome
           /\ reason' = reason
           /\ stream' = stream
      ]_vars

\* An entry was rejected after another had been accepted.
C24_Witness ==
    /\ nread = 2
    /\ ~lastFilter.accepted
    /\ foundFiles
    /\ lastFilter.path = <<"r", "/", "b", "/", "x">>

(* C25: the dispatch of an accepted entry that is neither a File nor a      *)
(* Directory creates nothing and raises no error, and the stream stays open *)
(* for the next entry.                                                      *)
C25_OtherKindsDiscarded ==
    [][ (/\ Len(dispatched') = Len(dispatched) + 1
         /\ dispatched'[Len(dispatched')].type \notin {File, Directory})
        => /\ dispatched'[Len(dispatched')].did = "skip"
           /\ dirs' = dirs
           /\ writePromises' = writePromises
           /\ outcome' = outcome
           /\ reason' = reason
           /\ stream' = stream
      ]_vars

\* A symbolic link was discarded and the next entry, a file, was written.
C25_Witness ==
    /\ Len(dispatched) = 2
    /\ dispatched[1].type = SymbolicLink
    /\ dispatched[1].did = "skip"
    /\ dispatched[2].did = "write"

(* C26: the match flag is false at the start, is true exactly when some     *)
(* entry has been accepted, is never reset, and at the end of the stream    *)
(* decides between the no-files-found error and waiting for the writes.     *)
C26_MatchFlag ==
    /\ [](foundFiles <=> (Len(queue) + Len(dispatched) > 0))
    /\ [][foundFiles => foundFiles']_vars
    /\ [][ (stream = "open" /\ stream' = "ended")
           => IF foundFiles
              THEN ~(outcome' = "rejected" /\ reason'.kind = "NoFilesFound")
              ELSE outcome' = "rejected" /\ reason'.kind = "NoFilesFound"
       ]_vars

\* An entry was accepted, a later one rejected, and the stream ended without
\* the no-files-found error.
C26_Witness ==
    /\ foundFiles
    /\ nread = 2
    /\ ~lastFilter.accepted
    /\ stream = "ended"
    /\ reason.kind # "NoFilesFound"

(* C30: every entry the filter accepts, and every entry handed to           *)
(* onReadEntry, has a path that starts with the discovered root prefix.     *)
C30_AcceptedUnderPrefix ==
    /\ lastFilter.accepted => IsUnder(tarballPrefix, lastFilter.path)
    /\ \A k \in 1..Len(dispatched) : IsUnder(tarballPrefix, dispatched[k].path)

\* Two writes the run has issued for the same destination path have both not
\* finished yet.
ConcurrentWrites(i, j) ==
    /\ i < j
    /\ writePromises[i].path = writePromises[j].path
    /\ writePromises[i].state = "pending"
    /\ writePromises[j].state = "pending"

(* C31: no two file writes for the same destination path are outstanding at *)
(* the same time.                                                           *)
C31_NoConcurrentWritesSamePath ==
    \A i, j \in 1..Len(writePromises) : ~ConcurrentWrites(i, j)

(* C32: whenever a directory was created or a file write was issued the     *)
(* match flag is true, and a run rejected with the no-files-found error has *)
(* created nothing.                                                         *)
C32_NoMatchErrorOnlyWhenNothingWritten ==
    /\ ~NothingCreated => foundFiles
    /\ (outcome = "rejected" /\ reason.kind = "NoFilesFound") => NothingCreated

\* A run that created a directory and wrote a file, whose last entry was
\* rejected by the filter, ended in success.
C32_Witness ==
    /\ stream = "ended"
    /\ dirs # {}
    /\ writePromises # <<>>
    /\ ~lastFilter.accepted
    /\ foundFiles
    /\ outcome = "resolved"

C33_WitnessNoMatch ==
    /\ stream = "endedAfterError"
    /\ endHandler = "returned"
    /\ ~foundFiles
    /\ outcome = "rejected"
    /\ reason.kind = "ParserError"

-----------------------------------------------------------------------------
(* downloadTarball and downloadFromUrl.  A URL is a sequence of tokens, the  *)
(* scheme first when it has one.                                            *)

(* Bound: how many redirects one download follows in the model. *)
MaxHops == 2

Providers == {"github", "gitlab"}

\* provider.getHeaders(), as the set of header names.
GetHeaders(provider) ==
    IF provider = "github" THEN {"User-Agent", "Accept"} ELSE {"User-Agent"}

\* provider.getTarballUrl(info): an absolute https URL for both providers.
GetTarballUrl(provider) ==
    IF provider = "github"
    THEN <<"https://", "api.github.com", "/", "tarball">>
    ELSE <<"https://", "gitlab.com", "/", "archive.tar.gz">>

\* res.statusCode when the response carries none.
NoStatus == 0

Statuses == {NoStatus, 200, 302, 403, 404, 500}

\* res.headers.location: absent, an absolute URL, or a path on the same host.
Locations == {Undefined, <<"https://", "cdn.example", "/", "a">>, <<"/", "a">>}

Responses ==
    [kind : {"response"}, status : Statuses, location : Locations,
     rateLimited : BOOLEAN]

\* req 'error' in place of a response.
ErrorEvent ==
    [kind |-> "error", status |-> NoStatus, location |-> Undefined,
     rateLimited |-> FALSE]

\* new URL(url) throws unless the string starts with a scheme.
NewURLThrows(url) == url = <<>> \/ url[1] \notin {"https://", "http://"}

\* res.headers.location is truthy.
HasLocation(r) == r.location # Undefined /\ r.location # <<>>

\* A classification that takes only server errors for errors.
ClassifyServerErrorsOnly(r) ==
    IF r.status # NoStatus /\ r.status >= 300 /\ r.status < 400 /\ HasLocation(r)
    THEN "redirect"
    ELSE IF r.status = NoStatus \/ r.status >= 500 THEN "error" ELSE "ok"

\* The branch the response callback takes.
Classify(r) ==
    IF r.status # NoStatus /\ r.status >= 300 /\ r.status < 400 /\ HasLocation(r)
    THEN "redirect"
    ELSE IF r.status = NoStatus \/ r.status >= 400 THEN "error" ELSE "ok"

\* provider.formatError(info, status, headers), as the kind of message and the
\* status it carries.
FormatError(provider, status, rateLimited) ==
    IF provider = "github"
    THEN IF status = 404 THEN [kind |-> "RepositoryNotFound", status |-> status]
         ELSE IF status = 403 /\ rateLimited
              THEN [kind |-> "RateLimitExceeded", status |-> status]
         ELSE [kind |-> "GitHubError", status |-> status]
    ELSE IF status = 404 THEN [kind |-> "ProjectNotFound", status |-> status]
         ELSE [kind |-> "GitLabError", status |-> status]

\* `HTTP error: ${res.statusCode}`
HttpError(status) == [kind |-> "HttpError", status |-> status]

\* The request error passed on without the 'Network error: ' prefix.
NetworkErrorBare == [kind |-> "RequestError", status |-> NoStatus]

\* `Network error: ${error.message}`
NetworkError == [kind |-> "NetworkError", status |-> NoStatus]

\* resolve / reject of the promise downloadTarball returns; the promises of the
\* later hops hand their result to it through .then(resolve).catch(reject).
\* Only the first settlement counts.
DlSettle(o, r) ==
    /\ dlOutcome' = IF dlOutcome = "pending" THEN o ELSE dlOutcome
    /\ dlReason' = IF dlOutcome = "pending" THEN r ELSE dlReason
    /\ dlPhase' = "settled"
    /\ UNCHANGED <<dlHop, dlRequest>>

\* downloadFromUrl(location, headers): new URL(location) runs before the
\* promise exists, so a location that does not parse throws out of the response
\* callback: no request is made and nothing settles.
DownloadFromUrl(location) ==
    IF NewURLThrows(location)
    THEN /\ dlPhase' = "threw"
         /\ UNCHANGED <<dlHop, dlRequest, dlOutcome, dlReason>>
    ELSE /\ dlHop' = dlHop + 1
         /\ dlRequest' = [url |-> location, headers |-> dlRequest.headers]
         /\ UNCHANGED <<dlPhase, dlOutcome, dlReason>>

\* The state before downloadTarball is called.
InitDownload ==
    /\ ExIdle
    /\ DlIdle
    /\ UrlIdle
    /\ PairIdle

\* downloadTarball(provider, info) up to req.end().
DownloadTarball(p) ==
    /\ dlPhase = "idle"
    /\ dlProvider' = p
    /\ dlHop' = 0
    /\ dlPhase' = "requesting"
    /\ dlRequest' = [url |-> GetTarballUrl(p), headers |-> GetHeaders(p)]
    /\ UNCHANGED <<dlOutcome, dlReason, dlResponses, exVars, urlVars, pairVars>>

\* The response callback of downloadTarball's own request.
Response(r) ==
    /\ dlPhase = "requesting"
    /\ dlHop = 0
    /\ Classify(r) = "redirect" => dlHop < MaxHops
    /\ dlResponses' = Append(dlResponses, r)
    /\ CASE Classify(r) = "redirect" -> DownloadFromUrl(r.location)
         [] Classify(r) = "error" ->
                DlSettle("rejected",
                         FormatError(dlProvider,
                                     IF r.status = NoStatus THEN 500 ELSE r.status,
                                     r.rateLimited))
         [] OTHER -> DlSettle("resolved", [kind |-> "none", status |-> 0])
    /\ UNCHANGED <<dlProvider, exVars, urlVars, pairVars>>

\* The response callback of a request made by downloadFromUrl.
RedirectResponse(r) ==
    /\ dlPhase = "requesting"
    /\ dlHop >= 1
    /\ Classify(r) = "redirect" => dlHop < MaxHops
    /\ dlResponses' = Append(dlResponses, r)
    /\ CASE Classify(r) = "redirect" -> DownloadFromUrl(r.location)
         [] Classify(r) = "error" -> DlSettle("rejected", HttpError(r.status))
         [] OTHER -> DlSettle("resolved", [kind |-> "none", status |-> 0])
    /\ UNCHANGED <<dlProvider, exVars, urlVars, pairVars>>

\* req.on('error') of the request in flight, at any hop.
RequestError ==
    /\ dlPhase = "requesting"
    /\ dlResponses' = Append(dlResponses, ErrorEvent)
    /\ DlSettle("rejected", NetworkError)
    /\ UNCHANGED <<dlProvider, exVars, urlVars, pairVars>>

NextDownload ==
    \/ \E p \in Providers : DownloadTarball(p)
    \/ \E r \in Responses : Response(r)
    \/ \E r \in Responses : RedirectResponse(r)
    \/ RequestError

SpecDownload == InitDownload /\ [][NextDownload]_vars

\* The last response or request error received.
LastResponse == dlResponses[Len(dlResponses)]

(* C16: a response with a 3xx status and a Location header is followed by a *)
(* request to that location with the provider's headers, and a response     *)
(* with a 2xx status resolves the download, at every hop.                   *)
C16_RedirectsFollowed ==
    (dlResponses # <<>> /\ LastResponse.kind = "response")
    => /\ (LastResponse.status \in 300..399 /\ HasLocation(LastResponse))
          => /\ dlPhase = "requesting"
             /\ dlOutcome = "pending"
             /\ dlHop = Len(dlResponses)
             /\ dlRequest = [url |-> LastResponse.location,
                             headers |-> GetHeaders(dlProvider)]
       /\ LastResponse.status \in 200..299 => dlOutcome = "resolved"

\* The part of C16 that the code keeps: a Location that is an absolute URL is
\* followed at every hop.
C16_AbsoluteRedirectsFollowed ==
    (/\ dlResponses # <<>>
     /\ LastResponse.kind = "response"
     /\ LastResponse.status \in 300..399
     /\ HasLocation(LastResponse)
     /\ LastResponse.location[1] \in {"https://", "http://"})
    => /\ dlPhase = "requesting"
       /\ dlHop = Len(dlResponses)
       /\ dlRequest = [url |-> LastResponse.location,
                       headers |-> GetHeaders(dlProvider)]

(* C17: a response with a status >= 400 rejects the download: with the      *)
(* provider's formatError message when it is the first response, with       *)
(* 'HTTP error: <status>' when it comes after a redirect.                   *)
C17_HttpErrorRejects ==
    (dlResponses # <<>> /\ LastResponse.kind = "response" /\ LastResponse.status >= 400)
    => /\ dlOutcome = "rejected"
       /\ dlReason = IF Len(dlResponses) = 1
                     THEN FormatError(dlProvider, LastResponse.status,
                                      LastResponse.rateLimited)
                     ELSE HttpError(LastResponse.status)

\* A 404 after one redirect was rejected with 'HTTP error: 404'.
C17_Witness ==
    /\ Len(dlResponses) = 2
    /\ LastResponse.kind = "response"
    /\ LastResponse.status = 404
    /\ dlOutcome = "rejected"
    /\ dlReason = [kind |-> "HttpError", status |-> 404]

\* A first response 403 with the rate limit used up was rejected with GitHub's
\* rate-limit message.
C17_WitnessFirstResponse ==
    /\ Len(dlResponses) = 1
    /\ dlProvider = "github"
    /\ LastResponse.status = 403
    /\ LastResponse.rateLimited
    /\ dlOutcome = "rejected"
    /\ dlReason = [kind |-> "RateLimitExceeded", status |-> 403]

(* C18: a request error at any hop rejects the download with a 'Network     *)
(* error: ' message, and a rejected download is never resolved.             *)
C18_NetworkErrorRejects ==
    [][ /\ (dlResponses' # dlResponses
            /\ dlResponses'[Len(dlResponses')].kind = "error")
           => /\ dlOutcome' = "rejected"
              /\ dlReason'.kind = "NetworkError"
        /\ dlOutcome = "rejected"
           => (dlOutcome' = "rejected" /\ dlReason' = dlReason)
      ]_vars

\* The request made for the second redirect failed.
C18_Witness ==
    /\ Len(dlResponses) = 3
    /\ dlHop = 2
    /\ LastResponse.kind = "error"
    /\ dlOutcome = "rejected"
    /\ dlReason.kind = "NetworkError"

(* C28: a chain of redirects ends: once MaxHops redirects have been         *)
(* followed, the download issues no further request.                        *)
C28_RedirectChainEnds == dlPhase = "requesting" => dlHop < MaxHops

\* The download has settled on a response (not on a request error).
SettledOnResponse ==
    /\ dlPhase = "settled"
    /\ dlResponses # <<>>
    /\ LastResponse.kind = "response"

(* C34: the download is resolved only when the final response has a 2xx     *)
(* status; on every other final status, a 3xx without a Location header     *)
(* included, it is rejected.                                                *)
C34_ResolvesOnlyOn2xx ==
    SettledOnResponse
    => IF LastResponse.status \in 200..299
       THEN dlOutcome = "resolved"
       ELSE dlOutcome = "rejected"

\* The part of C34 that the code keeps: a final response without a status or
\* with a status of 400 or more never resolves the download.
C34_NoResolveOnErrorStatus ==
    (SettledOnResponse /\ dlOutcome = "resolved")
    => (LastResponse.status # NoStatus /\ LastResponse.status < 400)

-----------------------------------------------------------------------------
(* parseUrl and the two providers.  URLs are strings: sequences of          *)
(* characters.                                                              *)

(* Bound: how many trailing slashes an input URL carries at most. *)
MaxTrailing == 2

HTTPS == <<"h", "t", "t", "p", "s", ":", "/", "/">>
HTTP == <<"h", "t", "t", "p", ":", "/", "/">>
FTP == <<"f", "t", "p", ":", "/", "/">>
GITHUB_COM == <<"g", "i", "t", "h", "u", "b", ".", "c", "o", "m">>
GITLAB_COM == <<"g", "i", "t", "l", "a", "b", ".", "c", "o", "m">>
EXAMPLE_COM == <<"e", "x", "a", "m", "p", "l", "e", ".", "c", "o", "m">>
TREE == <<"t", "r", "e", "e">>
GITLAB_MARKER == <<"/", "-", "/", "t", "r", "e", "e", "/">>
GITHUB_MARKER == <<"/", "t", "r", "e", "e", "/">>
BLOB_MARKER == <<"/", "b", "l", "o", "b", "/">>
QUESTION == "?"

Schemes == {HTTPS, HTTP, FTP}
Hosts == {GITHUB_COM, GITLAB_COM, EXAMPLE_COM}
Projects ==
    { <<"o", "/", "r">>,                  \* o/r
      <<"g", "/", "s", "/", "p">>,        \* g/s/p
      <<"o">> }                            \* o
Markers == {GITHUB_MARKER, GITLAB_MARKER, BLOB_MARKER}
Refs == { <<"m", "a", "i", "n">> }
Paths ==
    { <<>>,                                \* nothing after the ref
      <<"p">>,                              \* p
      <<"p", "/", "q">>,                    \* p/q
      <<"/", "p">>,                         \* /p  (the URL has ref//p)
      <<"v", "/", "g", "i", "t", "h", "u", "b", ".", "c", "o", "m", "/", "x">> }   \* v/github.com/x
Queries == { <<>>, <<"?", "a", "=", "1">> }

UrlParts ==
    [scheme : Schemes, host : Hosts, project : Projects, marker : Markers,
     ref : Refs, path : Paths, trailing : 0..MaxTrailing, query : Queries]

RECURSIVE Slashes(_)
Slashes(n) == IF n = 0 THEN <<>> ELSE <<SLASH>> \o Slashes(n - 1)

\* The URL string made of the parts.
UrlOf(u) ==
    u.scheme \o u.host \o <<SLASH>> \o u.project \o u.marker \o u.ref
    \o (IF u.path = <<>> THEN <<>> ELSE <<SLASH>> \o u.path)
    \o Slashes(u.trailing) \o u.query

\* s.includes(sub)
Includes(s, sub) ==
    \E i \in 1..(Len(s) - Len(sub) + 1) : SubSeq(s, i, i + Len(sub) - 1) = sub

\* s.replace(/\/+$/, '')
RECURSIVE StripTrailingSlashes(_)
StripTrailingSlashes(s) ==
    IF s # <<>> /\ s[Len(s)] = SLASH
    THEN StripTrailingSlashes(SubSeq(s, 1, Len(s) - 1))
    ELSE s

\* s.replace(/^\/+/, '')
RECURSIVE StripLeadingSlashes(_)
StripLeadingSlashes(s) ==
    IF s # <<>> /\ s[1] = SLASH THEN StripLeadingSlashes(Tail(s)) ELSE s

\* A normalisation that returns the subpath as it was captured.
NormalizeSubpathIdentity(s) == s

\* normalizeSubpath: subpath.replaceAll(/(^\/+)|(\/+$)/g, '')
NormalizeSubpath(s) == StripLeadingSlashes(StripTrailingSlashes(s))

\* url.split('?')[0]
RECURSIVE BeforeQuery(_)
BeforeQuery(s) ==
    IF s = <<>> \/ s[1] = QUESTION THEN <<>>
    ELSE <<s[1]>> \o BeforeQuery(Tail(s))

\* url.split('?')[0].replace(/\/+$/, '')
CleanUrl(url) == StripTrailingSlashes(BeforeQuery(url))

\* What follows ^https?:\/\/<host>\/ in the string, or Null when the string
\* does not start that way.
AfterHost(url, host) ==
    LET withS == HTTPS \o host \o <<SLASH>>
        without == HTTP \o host \o <<SLASH>>
    IN  IF Len(url) >= Len(withS) /\ SubSeq(url, 1, Len(withS)) = withS
        THEN SubSeq(url, Len(withS) + 1, Len(url))
        ELSE IF Len(url) >= Len(without) /\ SubSeq(url, 1, Len(without)) = without
        THEN SubSeq(url, Len(without) + 1, Len(url))
        ELSE Null

NoMatch == [matched |-> FALSE, owner |-> <<>>, repo |-> <<>>, ref |-> <<>>,
            subpath |-> <<>>]

\* GitHubProvider.URL_REGEX.exec(cleanUrl): owner, repo and ref are the
\* non-empty pieces between separators, the subpath is all that follows.
GitHubMatch(cleanUrl) ==
    LET rest == AfterHost(cleanUrl, GITHUB_COM)
        parts == Split(rest)
    IN  IF rest = Null THEN NoMatch
        ELSE IF /\ Len(parts) >= 5
                /\ parts[1] # <<>>
                /\ parts[2] # <<>>
                /\ parts[3] = TREE
                /\ parts[4] # <<>>
                /\ Join(ArraySlice(parts, 4)) # <<>>
        THEN [matched |-> TRUE, owner |-> parts[1], repo |-> parts[2],
              ref |-> parts[4], subpath |-> Join(ArraySlice(parts, 4))]
        ELSE NoMatch

\* The tail ([^\/]+)\/(.+)$ of the GitLab pattern matches t.
RefAndPath(t) == IndexOfSlash(t) > 0 /\ Len(t) > IndexOfSlash(t) + 1

\* GitLabProvider.URL_REGEX.exec(cleanUrl): the project path is the shortest
\* non-empty prefix (.+?) after which /-/tree/<ref>/<path> matches.
GitLabMatch(cleanUrl) ==
    LET rest == AfterHost(cleanUrl, GITLAB_COM)
        n == Len(GITLAB_MARKER)
        Fits(k) == /\ k + n <= Len(rest)
                   /\ SubSeq(rest, k + 1, k + n) = GITLAB_MARKER
                   /\ RefAndPath(SubSeq(rest, k + n + 1, Len(rest)))
        ks == IF rest = Null THEN {} ELSE {k \in 1..Len(rest) : Fits(k)}
    IN  IF ks = {} THEN NoMatch
        ELSE LET k == CHOOSE j \in ks : \A i \in ks : j <= i
                 projectPath == SubSeq(rest, 1, k)
                 tail == SubSeq(rest, k + n + 1, Len(rest))
                 parts == Split(projectPath)
             IN  [matched |-> TRUE,
                  owner |-> Join(SubSeq(parts, 1, Len(parts) - 1)),
                  repo |-> parts[Len(parts)],
                  ref |-> Slice2(tail, 0, IndexOfSlash(tail)),
                  subpath |-> Slice(tail, IndexOfSlash(tail) + 1)]

\* provider.canHandle(url), providers in the order of the registry.
CanHandle(provider, url) ==
    IF provider = "GitHub" THEN Includes(url, GITHUB_COM)
    ELSE Includes(url, GITLAB_COM)

Thrown(e) == [NoResult EXCEPT !.state = "threw", !.error = e]

\* provider.parseUrl(url)
ProviderParseUrl(provider, url) ==
    LET m == IF provider = "GitHub" THEN GitHubMatch(CleanUrl(url))
             ELSE GitLabMatch(CleanUrl(url))
    IN  IF ~m.matched
        THEN Thrown(IF provider = "GitHub" THEN "Invalid GitHub URL format"
                    ELSE "Invalid GitLab URL format")
        ELSE [state |-> "returned", provider |-> provider, error |-> "none",
              owner |-> m.owner, repo |-> m.repo, ref |-> m.ref,
              subpath |-> NormalizeSubpath(m.subpath)]

\* parseUrl(url): the first provider of the registry that can handle the
\* trimmed URL parses it.
ParseUrlResult(url) ==
    LET trimmed == StripTrailingSlashes(url)
    IN  IF CanHandle("GitHub", trimmed) THEN ProviderParseUrl("GitHub", trimmed)
        ELSE IF CanHandle("GitLab", trimmed) THEN ProviderParseUrl("GitLab", trimmed)
        ELSE Thrown("Unsupported URL format")

\* The state before parseUrl is called.
InitUrl ==
    /\ ExIdle
    /\ DlIdle
    /\ UrlIdle
    /\ PairIdle

\* One call of parseUrl.
ParseUrl(u) ==
    /\ urlResult.state = "idle"
    /\ urlInput' = u
    /\ urlResult' = ParseUrlResult(UrlOf(u))
    /\ UNCHANGED <<urlTarball, exVars, dlVars, pairVars>>

\* encodeURIComponent(s): the characters outside A-Z a-z 0-9 - _ . ! ~ * ' ( )
\* are replaced by their percent escapes.
PercentEscape(c) ==
    CASE c = "/" -> <<"%", "2", "F">>
      [] c = "?" -> <<"%", "3", "F">>
      [] c = ":" -> <<"%", "3", "A">>
      [] c = "=" -> <<"%", "3", "D">>
      [] c = "%" -> <<"%", "2", "5">>
      [] OTHER -> <<c>>

\* An encoding that leaves every character as it is.
EncodeURIComponentIdentity(s) == s

RECURSIVE EncodeURIComponent(_)
EncodeURIComponent(s) ==
    IF s = <<>> THEN <<>> ELSE PercentEscape(s[1]) \o EncodeURIComponent(Tail(s))

\* The fixed pieces of the tarball URLs.
GITHUB_API_REPOS ==
    <<"h", "t", "t", "p", "s", ":", "/", "/", "a", "p", "i", ".", "g", "i", "t",
      "h", "u", "b", ".", "c", "o", "m", "/", "r", "e", "p", "o", "s", "/">>
GITHUB_TARBALL == <<"/", "t", "a", "r", "b", "a", "l", "l", "/">>
GITLAB_API_PROJECTS ==
    <<"h", "t", "t", "p", "s", ":", "/", "/", "g", "i", "t", "l", "a", "b", ".",
      "c", "o", "m", "/", "a", "p", "i", "/", "v", "4", "/", "p", "r", "o", "j",
      "e", "c", "t", "s", "/">>
GITLAB_ARCHIVE ==
    <<"/", "r", "e", "p", "o", "s", "i", "t", "o", "r", "y", "/", "a", "r", "c",
      "h", "i", "v", "e", ".", "t", "a", "r", ".", "g", "z", "?", "s", "h", "a",
      "=">>

\* GitLab's projectPath: info.owner ? `${info.owner}/${info.repo}` : info.repo
ProjectPath(info) ==
    IF info.owner # <<>> THEN info.owner \o <<SLASH>> \o info.repo ELSE info.repo

\* provider.getTarballUrl(info), character by character.
TarballUrlOf(info) ==
    IF info.provider = "GitHub"
    THEN GITHUB_API_REPOS \o info.owner \o <<SLASH>> \o info.repo
         \o GITHUB_TARBALL \o info.ref
    ELSE GITLAB_API_PROJECTS \o EncodeURIComponent(ProjectPath(info))
         \o GITLAB_ARCHIVE \o info.ref

\* The caller asks the provider that parsed the URL for the tarball URL.
GetTarballUrlCall ==
    /\ urlResult.state = "returned"
    /\ urlTarball = <<>>
    /\ urlTarball' = TarballUrlOf(urlResult)
    /\ UNCHANGED <<urlInput, urlResult, exVars, dlVars, pairVars>>

NextUrl ==
    \/ \E u \in UrlParts : ParseUrl(u)
    \/ GetTarballUrlCall

SpecUrl == InitUrl /\ [][NextUrl]_vars

\* The URL has the GitHub form, the GitLab form, and a path after the ref
\* that starts with a name.
HasPath(u) == u.path # <<>> /\ u.path[1] # SLASH
IsHttpOrHttps(u) == u.scheme \in {HTTPS, HTTP}

GitHubForm(u) ==
    /\ IsHttpOrHttps(u)
    /\ u.host = GITHUB_COM
    /\ Len(Split(u.project)) = 2
    /\ u.marker = GITHUB_MARKER
    /\ HasPath(u)

GitLabForm(u) ==
    /\ IsHttpOrHttps(u)
    /\ u.host = GITLAB_COM
    /\ Len(Split(u.project)) >= 2
    /\ u.marker = GITLAB_MARKER
    /\ HasPath(u)

(* C19: a URL of the GitHub form is parsed by the GitHub provider, a URL of *)
(* the GitLab form by the GitLab provider, and a URL of neither host fails  *)
(* with 'Unsupported URL format'.                                           *)
C19_ProviderByUrlForm ==
    urlResult.state # "idle"
    => /\ GitHubForm(urlInput)
          => (urlResult.state = "returned" /\ urlResult.provider = "GitHub")
       /\ GitLabForm(urlInput)
          => (urlResult.state = "returned" /\ urlResult.provider = "GitLab")
       /\ urlInput.host \notin {GITHUB_COM, GITLAB_COM}
          => (urlResult.state = "threw" /\ urlResult.error = "Unsupported URL format")

\* The part of C19 that the code keeps: it holds for the URLs in which no
\* host name of a provider occurs after the host.
C19_ProviderByUrlFormPlainPath ==
    (urlResult.state # "idle" /\ ~Includes(urlInput.path, GITHUB_COM))
    => /\ GitHubForm(urlInput)
          => (urlResult.state = "returned" /\ urlResult.provider = "GitHub")
       /\ GitLabForm(urlInput)
          => (urlResult.state = "returned" /\ urlResult.provider = "GitLab")
       /\ urlInput.host \notin {GITHUB_COM, GITLAB_COM}
          => (urlResult.state = "threw" /\ urlResult.error = "Unsupported URL format")

(* C20: a result parseUrl returns has a non-empty subpath with no leading   *)
(* and no trailing slash, whatever the number of trailing slashes of the    *)
(* input; a GitHub or GitLab URL with nothing after the ref is rejected     *)
(* with an 'Invalid ... URL format' error.                                  *)
C20_SubpathNormalized ==
    /\ urlResult.state = "returned"
       => /\ urlResult.subpath # <<>>
          /\ urlResult.subpath[1] # SLASH
          /\ urlResult.subpath[Len(urlResult.subpath)] # SLASH
    /\ (/\ urlResult.state # "idle"
        /\ urlInput.host \in {GITHUB_COM, GITLAB_COM}
        /\ urlInput.path = <<>>)
       => /\ urlResult.state = "threw"
          /\ urlResult.error \in {"Invalid GitHub URL format",
                                  "Invalid GitLab URL format"}

\* A GitHub URL with ref//p and two trailing slashes returned the subpath p.
C20_Witness ==
    /\ urlResult.state = "returned"
    /\ urlInput.path = <<"/", "p">>
    /\ urlInput.trailing = 2
    /\ urlResult.subpath = <<"p">>

\* A GitLab URL with nothing after the ref and a trailing slash was rejected.
C20_WitnessNoPath ==
    /\ urlInput.host = GITLAB_COM
    /\ urlInput.marker = GITLAB_MARKER
    /\ urlInput.path = <<>>
    /\ urlInput.trailing = 1
    /\ urlResult.error = "Invalid GitLab URL format"

\* The segments joined by the escape of the separator.
RECURSIVE JoinEscaped(_)
JoinEscaped(parts) ==
    IF Len(parts) = 0 THEN <<>>
    ELSE IF Len(parts) = 1 THEN parts[1]
    ELSE parts[1] \o <<"%", "2", "F">> \o JoinEscaped(Tail(parts))

(* C29: for a GitLab URL, repo is the last segment of the project path      *)
(* before /-/tree/ and owner the earlier segments joined by '/', and the    *)
(* tarball URL has that project path, URL-encoded, as the project id and    *)
(* the ref as the sha parameter.                                            *)
C29_GitLabProjectPath ==
    (urlResult.state = "returned" /\ urlResult.provider = "GitLab")
    => LET parts == Split(urlInput.project)
       IN  /\ urlResult.repo = parts[Len(parts)]
           /\ urlResult.owner = Join(SubSeq(parts, 1, Len(parts) - 1))
           /\ urlTarball # <<>>
              => urlTarball = GITLAB_API_PROJECTS \o JoinEscaped(parts)
                              \o GITLAB_ARCHIVE \o urlInput.ref

\* The project g/s/p gave the owner g/s, the repo p and the project id
\* g%2Fs%2Fp.
C29_Witness ==
    /\ urlResult.provider = "GitLab"
    /\ urlInput.project = <<"g", "/", "s", "/", "p">>
    /\ urlResult.owner = <<"g", "/", "s">>
    /\ urlResult.repo = <<"p">>
    /\ urlTarball = GITLAB_API_PROJECTS
                    \o <<"g", "%", "2", "F", "s", "%", "2", "F", "p">>
                    \o GITLAB_ARCHIVE \o <<"m", "a", "i", "n">>

\* The project o, with no namespace, gave an empty owner and the project id o.
C29_WitnessNoOwner ==
    /\ urlResult.provider = "GitLab"
    /\ urlResult.owner = <<>>
    /\ urlResult.repo = <<"o">>
    /\ urlTarball = GITLAB_API_PROJECTS \o <<"o">> \o GITLAB_ARCHIVE
                    \o <<"m", "a", "i", "n">>

-----------------------------------------------------------------------------
(* Two extractTarball calls with the same options whose events interleave.  *)
(* The state of a call is what its closure holds: the variables declared    *)
(* inside extractTarball.                                                   *)

(* Bound: how many entries the decoder of each of the two calls yields. *)
MaxPairEntries == 1

Runs == {1, 2}

PairEntries ==
    { Entry(<<"r", "/", "a", "/", "x">>, File),              \* r/a/x
      Entry(<<"q", "/", "a", "/", "x">>, File),              \* q/a/x
      Entry(<<"r", "/", "a", "/", "b", "/">>, Directory),    \* r/a/b/
      Entry(<<"x">>, File) }                                 \* x

\* The subpath option of the two calls.
PairSubpaths == { <<>>, <<"a">> }

\* The closure state of a call after it has built its parser.
InitRun ==
    [tarballPrefix |-> Null, foundFiles |-> FALSE, writePromises |-> <<>>,
     queue |-> <<>>, nread |-> 0, stream |-> "open", endHandler |-> "idle",
     outcome |-> "pending", reason |-> NoReason, dirs |-> {}]

\* The events of one call: a filter call for an entry, an onReadEntry call, a
\* write stream that settles, the parser's 'end' and the parser's 'error'.
NoEntry == Entry(<<>>, File)

PairEvents ==
    [kind : {"filter"}, entry : PairEntries, i : {1}, ok : {TRUE}]
    \cup [kind : {"dispatch", "end", "error"}, entry : {NoEntry}, i : {1}, ok : {TRUE}]
    \cup [kind : {"settle"}, entry : {NoEntry}, i : 1..MaxPairEntries, ok : BOOLEAN]

\* The event can happen in the call's state.
RunEnabled(run, ev) ==
    CASE ev.kind = "filter"   -> run.stream = "open" /\ run.nread < MaxPairEntries
      [] ev.kind = "dispatch" -> run.queue # <<>>
      [] ev.kind = "settle"   -> /\ ev.i <= Len(run.writePromises)
                                 /\ run.writePromises[ev.i].state = "pending"
      [] ev.kind = "end"      -> run.stream = "open" /\ run.queue = <<>>
      [] OTHER                -> run.stream = "open"

\* What onReadEntry does with an entry, given the prefix of its call.
RunDispatch(prefix, e) ==
    IF prefix = Null THEN "skip"
    ELSE IF NewPath(e.path) = <<>> THEN "skip"
    ELSE IF e.type = Directory THEN "mkdir"
    ELSE IF e.type = File THEN "write"
    ELSE "skip"

\* The 'end' listener of a call from "await Promise.all(writePromises)" on.
RunAfterAwait(run, wp) ==
    CASE PromiseAll(wp) = "fulfilled" ->
            [run EXCEPT !.endHandler = "returned",
                        !.outcome = IF @ = "pending" THEN "resolved" ELSE @]
      [] PromiseAll(wp) = "rejected" -> [run EXCEPT !.endHandler = "threw"]
      [] OTHER -> [run EXCEPT !.endHandler = "awaiting"]

\* reject(err) of a call's outer promise.
RunReject(run, err) ==
    [run EXCEPT !.outcome = IF run.outcome = "pending" THEN "rejected" ELSE @,
                !.reason = IF run.outcome = "pending" THEN err ELSE @]

\* The handler of the event, on the state of the call it belongs to.
RunStep(run, ev) ==
    CASE ev.kind = "filter" ->
            LET prefix == DetectPrefix(run.tarballPrefix, ev.entry.path)
                accepted == FilterAccepts(prefix, ev.entry.path)
            IN  [run EXCEPT !.tarballPrefix = prefix,
                            !.foundFiles = FoundAfter(@, accepted),
                            !.queue = IF accepted THEN Append(@, ev.entry) ELSE @,
                            !.nread = @ + 1]
      [] ev.kind = "dispatch" ->
            LET e == NextEntry(run.queue)
                did == RunDispatch(run.tarballPrefix, e)
                extractPath == ExtractSegs(NewPath(e.path))
            IN  [run EXCEPT
                   !.queue = Tail(@),
                   !.dirs = CASE did = "mkdir" -> @ \cup MkdirRecursive(extractPath)
                              [] did = "write" -> @ \cup MkdirRecursive(Dirname(extractPath))
                              [] OTHER -> @,
                   !.writePromises =
                       IF did = "write"
                       THEN Append(@, [path |-> extractPath, state |-> "pending"])
                       ELSE @]
      [] ev.kind = "settle" ->
            LET wp == [run.writePromises EXCEPT
                          ![ev.i].state = IF ev.ok THEN "fulfilled" ELSE "rejected"]
                settled == [run EXCEPT !.writePromises = wp]
            IN  IF run.endHandler = "awaiting" THEN RunAfterAwait(settled, wp)
                ELSE settled
      [] ev.kind = "end" ->
            LET ended == [run EXCEPT !.stream = "ended"]
            IN  IF ~run.foundFiles
                THEN RunReject([ended EXCEPT !.endHandler = "returned"],
                               NoFilesError(subpath))
                ELSE RunAfterAwait(ended, run.writePromises)
      [] OTHER ->
            RunReject([run EXCEPT !.stream = "aborted"], ParserFailure)

\* An assignment that writes the prefix to a variable both calls share.
AssignSharedPrefix(rs, r, new) ==
    [rs EXCEPT ![r] = new, ![3 - r].tarballPrefix = new.tarballPrefix]

\* The assignments of a handler go to the variables of its own call.
Assign(rs, r, new) == [rs EXCEPT ![r] = new]

\* The state after both calls have built their parsers.
InitPair ==
    /\ subpath \in PairSubpaths
    /\ keepFolderName \in BOOLEAN
    /\ foundFiles = FALSE
    /\ tarballPrefix = Null
    /\ writePromises = <<>>
    /\ queue = <<>>
    /\ nread = 0
    /\ stream = "idle"
    /\ endHandler = "idle"
    /\ outcome = "pending"
    /\ reason = NoReason
    /\ dirs = {}
    /\ dispatched = <<>>
    /\ lastFilter = [path |-> Null, accepted |-> FALSE]
    /\ firstPath = Null
    /\ fatalAt = -1
    /\ DlIdle
    /\ UrlIdle
    /\ runs = <<InitRun, InitRun>>

\* One event of one of the two calls.
PairStep(r, ev) ==
    /\ RunEnabled(runs[r], ev)
    /\ runs' = Assign(runs, r, RunStep(runs[r], ev))
    /\ UNCHANGED <<exVars, dlVars, urlVars>>

NextPair == \E r \in Runs, ev \in PairEvents : PairStep(r, ev)

SpecPair == InitPair /\ [][NextPair]_vars

====
